---- MODULE Spec2Model ----
(***************************************************************************)
(* Model of the Public Terminal skill's posting pipeline: postMessage and  *)
(* postPinMessage (text validation, loadConfig, privateKeyToAccount,       *)
(* getSignature, writeContract, waitForTransactionReceipt, decodeEventLog  *)
(* and the catch block that classifies thrown errors).                     *)
(*                                                                         *)
(* Strings that the code inspects character by character (the draft text,  *)
(* PUBLIC_TERMINAL_FID, PUBLIC_TERMINAL_PRIVATE_KEY) are sequences of      *)
(* one-character strings.  Messages that the code only searches with       *)
(* includes() are sequences of tokens.  An optional field of a JavaScript  *)
(* object is a set: {} when the field is undefined, {v} when it holds v.   *)
(***************************************************************************)
EXTENDS Integers, Sequences, FiniteSets, TLC

\* ------------------------------------------------------------ constants

\* contract.ts: MAX_MESSAGE_LENGTH
MAX_MESSAGE_LENGTH == 120

\* contract.ts: PRICE_WEI = 500000000000000n, written here in gwei (10^9 wei)
\* because the model checker's integers are 32 bits wide.
PRICE_WEI == 500000

\* contract.ts: PIN_PRICE_WEI = 5000000000000000n, in gwei.
PIN_PRICE_WEI == 5000000

CONTRACT_ADDRESS == "0x1C89997a8643A8E380305F0078BB8210e3952e1C"

\* contract.ts: the names of the function entries of PUBLIC_TERMINAL_ABI
AbiFunctions == {"mint", "mintSticky", "getRecentMessages", "getMessageCount"}

\* contract.ts: the names of the event entries of PUBLIC_TERMINAL_ABI
AbiEvents == {"MessageMinted", "StickySet"}

\* config.ts: DEFAULT_API_URL, DEFAULT_RPC_URL
ConfigDefaultApiUrl == "https://public-terminal.vercel.app"
ConfigDefaultRpcUrl == "https://mainnet.base.org"

\* postMessage.ts: DEFAULT_API_URL, DEFAULT_RPC_URL
DEFAULT_API_URL == "https://publicterminal.app"
DEFAULT_RPC_URL == "https://mainnet.base.org"

\* --------------------------------------------------------------- bounds

\* Longest run of blanks put before and after a draft's body.
MaxPad == 1

\* Longest list of logs in a receipt.
MaxLogs == 2

\* Number of posting calls made one after the other (specification SpecSeq).
MaxCalls == 2

\* Most messages the read call returns.
MaxFeed == 2

\* Number of calls in flight at the same time (specification SpecConc).
MaxConc == 2

\* ------------------------------------------------------ string helpers

IsWhitespace(c) == c \in {" ", "\t", "\n"}

RECURSIVE TrimStart(_)
TrimStart(s) ==
    IF s = <<>> THEN s
    ELSE IF IsWhitespace(Head(s)) THEN TrimStart(Tail(s))
    ELSE s

RECURSIVE TrimEnd(_)
TrimEnd(s) ==
    IF s = <<>> THEN s
    ELSE IF IsWhitespace(s[Len(s)]) THEN TrimEnd(SubSeq(s, 1, Len(s) - 1))
    ELSE s

\* String.prototype.trim
Trim(s) == TrimEnd(TrimStart(s))

\* String.prototype.startsWith
StartsWith(s, p) == Len(s) >= Len(p) /\ SubSeq(s, 1, Len(p)) = p

\* String.prototype.includes, on a message made of tokens
Includes(msg, pat) ==
    \E i \in 0..(Len(msg) - Len(pat)) : SubSeq(msg, i + 1, i + Len(pat)) = pat

Digits == <<"0", "1", "2", "3", "4", "5", "6", "7", "8", "9">>

IsDigit(c) == \E i \in 1..Len(Digits) : Digits[i] = c

DigitValue(c) == (CHOOSE i \in 1..Len(Digits) : Digits[i] = c) - 1

RECURSIVE ParseDigits(_, _, _)
ParseDigits(s, acc, seen) ==
    IF s = <<>> \/ ~IsDigit(Head(s))
    THEN [nan |-> ~seen, val |-> acc]
    ELSE ParseDigits(Tail(s), acc * 10 + DigitValue(Head(s)), TRUE)

\* parseInt(s, 10): leading blanks are skipped, one sign is read, then the
\* longest prefix of decimal digits; NaN when there is no digit.
parseInt(s) ==
    LET t == TrimStart(s)
        signed == t # <<>> /\ Head(t) \in {"+", "-"}
        neg == t # <<>> /\ Head(t) = "-"
        r == ParseDigits(IF signed THEN Tail(t) ELSE t, 0, FALSE)
    IN  [nan |-> r.nan, val |-> IF neg THEN 0 - r.val ELSE r.val]

\* ---------------------------------------------------- the draft text

Pad(n) == [i \in 1..n |-> " "]

\* A body of n characters; from three characters on it holds an inner blank.
Body(n) == [i \in 1..n |-> IF i = 2 /\ n > 2 THEN " " ELSE "a"]

BodyLens == {0, 1, MAX_MESSAGE_LENGTH, MAX_MESSAGE_LENGTH + 1}

StringValue(s) == [type |-> "string", chars |-> s]

\* The values a caller can pass as text: strings, and values that are no
\* string (undefined, the number 0, the number 42).
TextInputs ==
    { StringValue(Pad(l) \o Body(n) \o Pad(r)) :
        l \in 0..MaxPad, n \in BodyLens, r \in 0..MaxPad }
    \cup { [type |-> "undefined", chars |-> <<>>],
           [type |-> "number", chars |-> <<"0">>],
           [type |-> "number", chars |-> <<"4", "2">>] }

\* !text
IsFalsy(v) ==
    \/ v.type = "undefined"
    \/ v.type = "string" /\ v.chars = <<>>
    \/ v.type = "number" /\ v.chars = <<"0">>

\* ------------------------------------------------------------ results

\* PostMessageResult
Result(success, tokenId, txHash, error) ==
    [success |-> success, tokenId |-> tokenId, txHash |-> txHash, error |-> error]

\* Failure without the error message.
Failure_NoError(msg) == Result(FALSE, {}, {}, {})

Failure(msg) == Result(FALSE, {}, {}, {msg})

\* ValidateText without the check against MAX_MESSAGE_LENGTH.
ValidateText_NoLengthLimit(text) ==
    IF IsFalsy(text) \/ text.type # "string"
    THEN {<<"Text must be a non-empty string">>}
    ELSE IF Len(Trim(text.chars)) = 0
    THEN {<<"Text cannot be empty">>}
    ELSE {}

\* postMessage / postPinMessage, "Validate text": the validation error, if any
ValidateText(text) ==
    IF IsFalsy(text) \/ text.type # "string"
    THEN {<<"Text must be a non-empty string">>}
    ELSE IF Len(Trim(text.chars)) = 0
    THEN {<<"Text cannot be empty">>}
    ELSE IF Len(Trim(text.chars)) > MAX_MESSAGE_LENGTH
    THEN {<<"Text ", "too long", ": ", ToString(Len(Trim(text.chars))),
            " characters (max ", ToString(MAX_MESSAGE_LENGTH), ")">>}
    ELSE {}

\* ---------------------------------------------------- the environment

HexChars == {"0", "1", "2", "3", "4", "5", "6", "7", "8", "9",
             "a", "b", "c", "d", "e", "f", "A", "B", "C", "D", "E", "F"}

\* A well-formed private key: 0x and 64 hexadecimal digits.
GoodKey == <<"0", "x">> \o [i \in 1..64 |-> "1"]

\* The values of PUBLIC_TERMINAL_FID; <<>> is unset (or empty).
FidValues ==
    { <<>>, <<"1", "2">>, <<"0">>, <<"-", "3">>, <<"x">>, <<"7", "x">> }

\* The values of PUBLIC_TERMINAL_USERNAME; "" is unset (or empty).
UsernameValues == {"", "alice"}

\* The values of PUBLIC_TERMINAL_PRIVATE_KEY; <<>> is unset (or empty).
PrivateKeyValues ==
    { <<>>, GoodKey, <<"0", "x", "1", "2">>, [i \in 1..64 |-> "1"] }

\* The values of PUBLIC_TERMINAL_API_URL and PUBLIC_TERMINAL_RPC_URL.
ApiUrlValues == {"", "https://api.example"}
RpcUrlValues == {"", "https://rpc.example"}

\* process.env
Envs ==
    [fid : FidValues, username : UsernameValues, privateKey : PrivateKeyValues,
     apiUrl : ApiUrlValues, rpcUrl : RpcUrlValues]

NoConfig ==
    [fid |-> 0, username |-> "", privateKey |-> <<>>, apiBaseUrl |-> "", rpcUrl |-> ""]

Thrown(msg) == [threw |-> TRUE, error |-> msg, config |-> NoConfig]

\* config.ts: loadConfig; the configuration, or the Error it throws
loadConfig(e) ==
    IF e.fid = <<>>
    THEN Thrown(<<"Missing ", "PUBLIC_TERMINAL_FID",
                  " environment variable. Set your Farcaster FID.">>)
    ELSE IF e.username = ""
    THEN Thrown(<<"Missing ", "PUBLIC_TERMINAL_USERNAME",
                  " environment variable. Set your Farcaster username.">>)
    ELSE IF e.privateKey = <<>>
    THEN Thrown(<<"Missing ", "PUBLIC_TERMINAL_PRIVATE_KEY",
                  " environment variable. Set the private key for a wallet verified with your FID.">>)
    ELSE IF parseInt(e.fid).nan \/ parseInt(e.fid).val <= 0
    THEN Thrown(<<"Invalid ", "PUBLIC_TERMINAL_FID", ": \"">> \o e.fid
                \o <<"\". Must be a positive integer.">>)
    ELSE IF ~StartsWith(e.privateKey, <<"0", "x">>)
    THEN Thrown(<<"Invalid ", "PUBLIC_TERMINAL_PRIVATE_KEY", ": must start with 0x">>)
    ELSE [threw |-> FALSE, error |-> <<>>,
          config |-> [fid |-> parseInt(e.fid).val,
                      username |-> e.username,
                      privateKey |-> e.privateKey,
                      apiBaseUrl |-> IF e.apiUrl # "" THEN e.apiUrl
                                     ELSE ConfigDefaultApiUrl,
                      rpcUrl |-> IF e.rpcUrl # "" THEN e.rpcUrl
                                 ELSE ConfigDefaultRpcUrl]]

\* viem's privateKeyToAccount accepts 0x followed by 32 bytes in hexadecimal
\* and throws on anything else.
IsPrivateKeyEncoding(key) ==
    /\ Len(key) = 66
    /\ StartsWith(key, <<"0", "x">>)
    /\ \A i \in 3..Len(key) : key[i] \in HexChars

\* account.address: the address the key derives
AddressOf(key) == <<"address of ">> \o key

\* postMessage: const account = privateKeyToAccount(config.privateKey)
privateKeyToAccount(key) ==
    IF IsPrivateKeyEncoding(key)
    THEN [threw |-> FALSE, error |-> <<>>, address |-> AddressOf(key)]
    ELSE [threw |-> TRUE, error |-> <<"invalid private key">>, address |-> <<>>]

\* ------------------------------------------------- the signing API

\* Messages of the errors the transports throw (Error.message), as tokens.
ErrorMessages ==
    { <<"fetch failed">>,
      <<"execution reverted: ", "InsufficientPayment", "()">>,
      <<"execution reverted: ", "MessageTooLong", "()">>,
      <<"execution reverted: ", "InvalidSignature", "()">>,
      <<"InvalidSignature", " after ", "InsufficientPayment">>,
      <<"Timed out while waiting for transaction">> }

\* The error field of the API's body: <<>> is absent (or the empty string).
ApiErrors == { <<>>, <<"Wallet not verified for FID">> }

\* The signature field of the API's body: {} is absent.
ApiSignatures == { {}, {"0xabc"}, {"0xdef"} }

\* What response.json() settles with: a rejection (the body is no JSON),
\* null, or an object with the optional fields error and signature.
JsonOutcomes ==
    { [kind |-> "nonjson", error |-> <<>>, signature |-> {}],
      [kind |-> "null", error |-> <<>>, signature |-> {}] }
    \cup [kind : {"object"}, error : ApiErrors, signature : ApiSignatures]

\* getSignature, from the parsed body on: what it returns, or that it throws
\* (reading a property of null)
getSignatureReturn(ok, data) ==
    IF data.kind = "null"
    THEN [kind |-> "throw", error |-> <<"Cannot read properties of null">>,
          signature |-> {}]
    ELSE IF ~ok
    THEN [kind |-> "error",
          error |-> IF data.error # <<>> THEN data.error
                    ELSE <<"Failed to get signature from API">>,
          signature |-> {}]
    ELSE [kind |-> "signature", error |-> <<>>, signature |-> data.signature]

\* The JSON body of the POST to /api/sign-mint
SignRequest(config, text, walletAddress) ==
    [url |-> IF config.apiBaseUrl # "" THEN config.apiBaseUrl ELSE DEFAULT_API_URL,
     fid |-> config.fid, username |-> config.username,
     text |-> text, address |-> walletAddress]

\* ------------------------------------------------------- the chain

\* The hashes writeContract can return.
Hashes == {"0xhash1", "0xhash2"}

\* The arguments of walletClient.writeContract
WriteCall(functionName, config, text, signature, value) ==
    [address |-> CONTRACT_ADDRESS,
     functionName |-> functionName,
     args |-> [fid |-> config.fid, username |-> config.username,
               text |-> text, signature |-> signature],
     value |-> value,
     account |-> privateKeyToAccount(config.privateKey).address,
     rpcUrl |-> IF config.rpcUrl # "" THEN config.rpcUrl ELSE DEFAULT_RPC_URL]

\* postMessage submits with functionName "mint" and value PRICE_WEI
PostWriteCall(config, text, signature) ==
    WriteCall("mint", config, text, signature, PRICE_WEI)

\* PinWriteCall attaching the price of a normal post.
PinWriteCall_BasePrice(config, text, signature) ==
    WriteCall("mintPin", config, text, signature, PRICE_WEI)

\* postPinMessage submits with functionName "mintPin" and value PIN_PRICE_WEI
PinWriteCall(config, text, signature) ==
    WriteCall("mintPin", config, text, signature, PIN_PRICE_WEI)

\* How writeContract settles: it throws before sending anything when the
\* function is not in the ABI it is given or an argument cannot be encoded
\* (signature undefined); otherwise it returns a hash or throws.
WriteOutcomes(call) ==
    IF call.functionName \notin AbiFunctions
    THEN { [threw |-> TRUE, hash |-> "",
            error |-> <<"Function \"", call.functionName, "\" not found on ABI.">>] }
    ELSE IF call.args.signature = {}
    THEN { [threw |-> TRUE, hash |-> "",
            error |-> <<"Cannot read properties of undefined">>] }
    ELSE { [threw |-> FALSE, hash |-> h, error |-> <<>>] : h \in Hashes }
         \cup { [threw |-> TRUE, hash |-> "", error |-> m] : m \in ErrorMessages }

\* The logs a receipt can hold: two mint events, a StickySet event (also an
\* event of the ABI, with a tokenId of its own), an event of another
\* contract, and a MessageMinted log whose data does not decode.
Logs ==
    { [event |-> "MessageMinted", tokenId |-> 41, wellFormed |-> TRUE],
      [event |-> "MessageMinted", tokenId |-> 42, wellFormed |-> TRUE],
      [event |-> "StickySet", tokenId |-> 43, wellFormed |-> TRUE],
      [event |-> "Transfer", tokenId |-> 44, wellFormed |-> TRUE],
      [event |-> "MessageMinted", tokenId |-> 45, wellFormed |-> FALSE] }

LogLists == UNION { [1..n -> Logs] : n \in 0..MaxLogs }

\* Why the contract reverted a mined transaction: one of its custom errors,
\* or another reason. The chain knows it; the receipt has no field for it.
RevertReasons == { <<"InsufficientPayment">>, <<"Paused">> }

\* How waitForTransactionReceipt settles: a receipt, or it throws. reason is
\* the reason of the revert, <<>> when there was none; the reverts for
\* another reason than a custom error are those of receipts without logs.
ReceiptOutcomes ==
    { [threw |-> FALSE, status |-> "success", logs |-> ls, error |-> <<>>,
       reason |-> <<>>] : ls \in LogLists }
    \cup { [threw |-> FALSE, status |-> "reverted", logs |-> ls, error |-> <<>>,
             reason |-> <<"InsufficientPayment">>] : ls \in LogLists }
    \cup { [threw |-> FALSE, status |-> "reverted", logs |-> <<>>, error |-> <<>>,
             reason |-> rs] : rs \in RevertReasons }
    \cup { [threw |-> TRUE, status |-> "", logs |-> <<>>, error |-> m,
             reason |-> <<>>] : m \in ErrorMessages }

\* viem's decodeEventLog with PUBLIC_TERMINAL_ABI: throws when the log's
\* signature is no event of the ABI or its data does not fit the event.
decodeEventLog(log) ==
    IF log.event \notin AbiEvents \/ ~log.wellFormed
    THEN [threw |-> TRUE, eventName |-> "", tokenId |-> {}]
    ELSE [threw |-> FALSE, eventName |-> log.event, tokenId |-> {log.tokenId}]

\* ScanLogs without the test of the event's name: the first log that decodes
\* as any event of the ABI gives the tokenId.
RECURSIVE ScanLogs_AnyEvent(_, _)
ScanLogs_AnyEvent(logs, i) ==
    IF i > Len(logs)
    THEN [tokenId |-> {}, decoded |-> Len(logs)]
    ELSE LET d == decodeEventLog(logs[i])
         IN  IF ~d.threw /\ d.tokenId # {}
             THEN [tokenId |-> d.tokenId, decoded |-> i]
             ELSE ScanLogs_AnyEvent(logs, i + 1)

\* The for loop over receipt.logs from index i on: the tokenId it ends with
\* and the number of logs it decoded (it breaks at the first mint event).
\* Number(args.tokenId) is exact on the identifiers of Logs (below 2^53).
RECURSIVE ScanLogs(_, _)
ScanLogs(logs, i) ==
    IF i > Len(logs)
    THEN [tokenId |-> {}, decoded |-> Len(logs)]
    ELSE LET d == decodeEventLog(logs[i])
         IN  IF ~d.threw /\ d.eventName = "MessageMinted" /\ d.tokenId # {}
             THEN [tokenId |-> d.tokenId, decoded |-> i]
             ELSE ScanLogs(logs, i + 1)

\* InterpretReceipt without the test of receipt.status.
InterpretReceipt_NoStatusCheck(h, receipt) ==
    [result |-> Result(TRUE, ScanLogs(receipt.logs, 1).tokenId, {h}, {}),
     decoded |-> ScanLogs(receipt.logs, 1).decoded]

\* InterpretReceipt reporting a failure when no mint event was found.
InterpretReceipt_RequireTokenId(h, receipt) ==
    IF receipt.status # "success"
    THEN [result |-> Result(FALSE, {}, {h}, {<<"Transaction reverted">>}),
          decoded |-> 0]
    ELSE IF ScanLogs(receipt.logs, 1).tokenId = {}
    THEN [result |-> Result(FALSE, {}, {h}, {<<"No MessageMinted event">>}),
          decoded |-> ScanLogs(receipt.logs, 1).decoded]
    ELSE [result |-> Result(TRUE, ScanLogs(receipt.logs, 1).tokenId, {h}, {}),
          decoded |-> ScanLogs(receipt.logs, 1).decoded]

\* InterpretReceipt reporting the reason of the revert.
InterpretReceipt_ReportReason(h, receipt) ==
    IF receipt.status # "success"
    THEN [result |-> Result(FALSE, {}, {h}, {receipt.reason}),
          decoded |-> 0]
    ELSE [result |-> Result(TRUE, ScanLogs(receipt.logs, 1).tokenId, {h}, {}),
          decoded |-> ScanLogs(receipt.logs, 1).decoded]

\* postMessage / postPinMessage after the receipt arrived: the result and
\* the number of logs decoded
InterpretReceipt(h, receipt) ==
    IF receipt.status # "success"
    THEN [result |-> Result(FALSE, {}, {h}, {<<"Transaction reverted">>}),
          decoded |-> 0]
    ELSE [result |-> Result(TRUE, ScanLogs(receipt.logs, 1).tokenId, {h}, {}),
          decoded |-> ScanLogs(receipt.logs, 1).decoded]

\* CatchResult with the test for InvalidSignature made first.
CatchResult_SignatureFirst(v, msg) ==
    IF Includes(msg, <<"InvalidSignature">>)
    THEN Failure(<<"Signature verification failed",
                   ". Ensure your wallet is verified for your FID.">>)
    ELSE IF Includes(msg, <<"InsufficientPayment">>)
    THEN Failure(IF v = "post"
                 THEN <<"Insufficient funds", ". You need 0.0005 ETH to post.">>
                 ELSE <<"Insufficient funds", ". Pinned posts cost 0.005 ETH.">>)
    ELSE IF Includes(msg, <<"MessageTooLong">>)
    THEN Failure(<<"Message too long", ". Max ", ToString(MAX_MESSAGE_LENGTH),
                   " characters.">>)
    ELSE Failure(msg)

\* The catch block of postMessage (v = "post") and postPinMessage (v = "pin")
CatchResult(v, msg) ==
    IF Includes(msg, <<"InsufficientPayment">>)
    THEN Failure(IF v = "post"
                 THEN <<"Insufficient funds", ". You need 0.0005 ETH to post.">>
                 ELSE <<"Insufficient funds", ". Pinned posts cost 0.005 ETH.">>)
    ELSE IF Includes(msg, <<"MessageTooLong">>)
    THEN Failure(<<"Message too long", ". Max ", ToString(MAX_MESSAGE_LENGTH),
                   " characters.">>)
    ELSE IF Includes(msg, <<"InvalidSignature">>)
    THEN Failure(<<"Signature verification failed",
                   ". Ensure your wallet is verified for your FID.">>)
    ELSE Failure(msg)

\* ------------------------------------------------------------- state

VARIABLES
    env,              \* process.env
    pc,               \* where the current call is: idle, fetch, json, write,
                      \* receipt (suspended at an await), returned, raised
    variant,          \* "post" for postMessage, "pin" for postPinMessage
    text,             \* the argument of the call
    trimmedText,      \* const trimmedText
    config,           \* let config
    walletAddress,    \* const walletAddress
    responseOk,       \* response.ok, once fetch resolved
    data,             \* what response.json() settled with
    signatureResult,  \* const signatureResult, once getSignature returned
    hash,             \* const hash, once writeContract returned
    receipt,          \* const receipt, once waitForTransactionReceipt returned
    caught,           \* the message of the error the catch block caught
    result,           \* the value the call's promise resolved with
    raised,           \* the message of the error the call's promise rejected with
    fetchCalls,       \* the requests sent to the signing API by this call
    writeCalls,       \* the writeContract calls of this call
    receiptCalls,     \* the waitForTransactionReceipt calls of this call
    decodeCalls,      \* the decodeEventLog calls of this call
    invocations,      \* the number of posting calls started so far
    granted,          \* the signing API's record: the signatures it issued,
                      \* each with the request it answered
    submitted,        \* the chain client's record: the writeContract calls
                      \* of all posting calls
    feedPc,           \* where the readFeed call is: idle, read, returned, raised
    feedArgs,         \* the arguments of the readFeed call
    readCalls,        \* the readContract calls of the readFeed call
    feedRaw,          \* const rawMessages, once readContract returned
    feedResult,       \* the value readFeed's promise resolved with
    feedRaised,       \* the message of the error readFeed's promise rejected with
    frames,           \* calls in flight at the same time: the locals of each,
                      \* in the order the calls were made
    heard             \* what the collaborators answered to each of them

world == <<invocations, granted, submitted>>

feed == <<feedPc, feedArgs, readCalls, feedRaw, feedResult, feedRaised>>

conc == <<frames, heard>>

vars ==
    <<env, pc, variant, text, trimmedText, config, walletAddress,
      responseOk, data, signatureResult, hash, receipt, caught, result, raised,
      fetchCalls, writeCalls, receiptCalls, decodeCalls,
      invocations, granted, submitted,
      feedPc, feedArgs, readCalls, feedRaw, feedResult, feedRaised,
      frames, heard>>

locals ==
    <<trimmedText, config, walletAddress, responseOk, data, signatureResult,
      hash, receipt, caught>>

calls == <<fetchCalls, writeCalls, receiptCalls, decodeCalls>>

Terminal == {"returned", "raised"}

\* The locals of a call that has not started: those of postMessage and
\* postPinMessage, and the count and rawMessages of readFeed.
NewFrame ==
    [kind |-> "none", pc |-> "idle", text |-> StringValue(<<>>),
     trimmedText |-> <<>>, config |-> NoConfig, walletAddress |-> <<>>,
     responseOk |-> {}, data |-> {}, signatureResult |-> {}, hash |-> {},
     receipt |-> {}, caught |-> {}, result |-> {}, raised |-> {},
     fetchCalls |-> <<>>, writeCalls |-> <<>>, receiptCalls |-> <<>>,
     decodeCalls |-> 0, count |-> {}, readCalls |-> <<>>, feedRaw |-> {}]

Init ==
    /\ env \in Envs
    /\ pc = "idle"
    /\ variant = "post"
    /\ text = StringValue(<<>>)
    /\ trimmedText = <<>>
    /\ config = NoConfig
    /\ walletAddress = <<>>
    /\ responseOk = {}
    /\ data = {}
    /\ signatureResult = {}
    /\ hash = {}
    /\ receipt = {}
    /\ caught = {}
    /\ result = {}
    /\ raised = {}
    /\ fetchCalls = <<>>
    /\ writeCalls = <<>>
    /\ receiptCalls = <<>>
    /\ decodeCalls = 0
    /\ invocations = 0
    /\ granted = {}
    /\ submitted = {}
    /\ feedPc = "idle"
    /\ feedArgs = [count |-> {}, rpcUrl |-> ""]
    /\ readCalls = <<>>
    /\ feedRaw = {}
    /\ feedResult = {}
    /\ feedRaised = {}
    /\ frames = <<>>
    /\ heard = <<>>

\* The call's promise resolves with r.
Return(r) ==
    /\ pc' = "returned"
    /\ result' = {r}
    /\ raised' = {}

\* The call's promise rejects with an error of message m.
Raise(m) ==
    /\ pc' = "raised"
    /\ result' = {}
    /\ raised' = {m}

\* Invoke with the configuration loaded before the text is validated.
Invoke_ConfigFirst(v, t) ==
    /\ pc = "idle"
    /\ variant' = v
    /\ text' = t
    /\ invocations' = invocations + 1
    /\ UNCHANGED <<env, granted, submitted, feed, conc>>
    /\ responseOk' = {} /\ data' = {} /\ signatureResult' = {}
    /\ hash' = {} /\ receipt' = {} /\ caught' = {}
    /\ writeCalls' = <<>> /\ receiptCalls' = <<>> /\ decodeCalls' = 0
    /\ IF loadConfig(env).threw
       THEN /\ Return(Failure(loadConfig(env).error))
            /\ trimmedText' = <<>>
            /\ config' = NoConfig /\ walletAddress' = <<>>
            /\ fetchCalls' = <<>>
       ELSE IF ValidateText(t) # {}
       THEN /\ Return(Failure(CHOOSE m \in ValidateText(t) : TRUE))
            /\ trimmedText' = IF t.type = "string" /\ ~IsFalsy(t)
                              THEN Trim(t.chars) ELSE <<>>
            /\ config' = NoConfig /\ walletAddress' = <<>>
            /\ fetchCalls' = <<>>
       ELSE IF privateKeyToAccount(loadConfig(env).config.privateKey).threw
       THEN /\ Raise(privateKeyToAccount(loadConfig(env).config.privateKey).error)
            /\ trimmedText' = Trim(t.chars)
            /\ config' = loadConfig(env).config /\ walletAddress' = <<>>
            /\ fetchCalls' = <<>>
       ELSE LET cfg == loadConfig(env).config
                addr == privateKeyToAccount(cfg.privateKey).address
            IN  /\ trimmedText' = Trim(t.chars)
                /\ config' = cfg
                /\ walletAddress' = addr
                /\ fetchCalls' = <<SignRequest(cfg, Trim(t.chars), addr)>>
                /\ pc' = "fetch"
                /\ result' = {} /\ raised' = {}

\* postMessage(t) (v = "post") or postPinMessage(t) (v = "pin") is called and
\* runs up to its first await: validation, loadConfig, privateKeyToAccount,
\* and getSignature up to its fetch.
Invoke(v, t) ==
    /\ pc = "idle"
    /\ variant' = v
    /\ text' = t
    /\ invocations' = invocations + 1
    /\ UNCHANGED <<env, granted, submitted, feed, conc>>
    /\ responseOk' = {} /\ data' = {} /\ signatureResult' = {}
    /\ hash' = {} /\ receipt' = {} /\ caught' = {}
    /\ writeCalls' = <<>> /\ receiptCalls' = <<>> /\ decodeCalls' = 0
    /\ IF ValidateText(t) # {}
       THEN /\ Return(Failure(CHOOSE m \in ValidateText(t) : TRUE))
            /\ trimmedText' = IF t.type = "string" /\ ~IsFalsy(t)
                              THEN Trim(t.chars) ELSE <<>>
            /\ config' = NoConfig /\ walletAddress' = <<>>
            /\ fetchCalls' = <<>>
       ELSE IF loadConfig(env).threw
       THEN /\ Return(Failure(loadConfig(env).error))
            /\ trimmedText' = Trim(t.chars)
            /\ config' = NoConfig /\ walletAddress' = <<>>
            /\ fetchCalls' = <<>>
       ELSE IF privateKeyToAccount(loadConfig(env).config.privateKey).threw
       THEN /\ Raise(privateKeyToAccount(loadConfig(env).config.privateKey).error)
            /\ trimmedText' = Trim(t.chars)
            /\ config' = loadConfig(env).config /\ walletAddress' = <<>>
            /\ fetchCalls' = <<>>
       ELSE LET cfg == loadConfig(env).config
                addr == privateKeyToAccount(cfg.privateKey).address
            IN  /\ trimmedText' = Trim(t.chars)
                /\ config' = cfg
                /\ walletAddress' = addr
                /\ fetchCalls' = <<SignRequest(cfg, Trim(t.chars), addr)>>
                /\ pc' = "fetch"
                /\ result' = {} /\ raised' = {}

\* getSignature: fetch rejects (the API is unreachable); nothing catches it.
FetchRejects(m) ==
    /\ pc = "fetch"
    /\ Raise(m)
    /\ UNCHANGED <<env, variant, text, locals, calls, world, feed, conc>>

\* getSignature: fetch resolves with a response; response.json() is awaited.
FetchResponds(ok) ==
    /\ pc = "fetch"
    /\ responseOk' = {ok}
    /\ pc' = "json"
    /\ UNCHANGED <<env, variant, text, trimmedText, config,
                   walletAddress, data, signatureResult, hash, receipt, caught,
                   result, raised, calls, world, feed, conc>>

\* The test of signatureResult left out.
HasError_Unchecked(r) == FALSE

\* "error" in signatureResult
HasError(r) == r.kind = "error"

\* SubmitCall submitting the text as the caller passed it, untrimmed.
SubmitCall_RawText(v, cfg, txt, signature) ==
    IF v = "post" THEN PostWriteCall(cfg, text.chars, signature)
    ELSE PinWriteCall(cfg, text.chars, signature)

\* The writeContract call of the variant
SubmitCall(v, cfg, txt, signature) ==
    IF v = "post" THEN PostWriteCall(cfg, txt, signature)
    ELSE PinWriteCall(cfg, txt, signature)

\* What the signing API records when it answers request req of posting call n
\* with status ok and body d: a signature it issued, if any.
Grant(n, ok, d, req) ==
    IF ok /\ d.kind = "object" /\ d.signature # {}
    THEN {[call |-> n, signature |-> d.signature, request |-> req]}
    ELSE {}

\* response.json() settles; getSignature returns or throws; on a signature
\* the clients are created and writeContract is called.
JsonSettles(d) ==
    /\ pc = "json"
    /\ data' = {d}
    /\ UNCHANGED <<env, variant, text, trimmedText, config,
                   walletAddress, responseOk, hash, receipt, caught,
                   fetchCalls, receiptCalls, decodeCalls, invocations, feed, conc>>
    /\ granted' = granted \cup Grant(invocations, CHOOSE b \in responseOk : TRUE,
                                      d, fetchCalls[Len(fetchCalls)])
    /\ LET ok == CHOOSE b \in responseOk : TRUE
           r == getSignatureReturn(ok, d)
       IN  IF d.kind = "nonjson"
           THEN /\ Raise(<<"Unexpected token in JSON">>)
                /\ signatureResult' = {}
                /\ writeCalls' = <<>>
                /\ UNCHANGED submitted
           ELSE IF r.kind = "throw"
           THEN /\ Raise(r.error)
                /\ signatureResult' = {}
                /\ writeCalls' = <<>>
                /\ UNCHANGED submitted
           ELSE IF HasError(r)
           THEN /\ Return(Failure(r.error))
                /\ signatureResult' = {r}
                /\ writeCalls' = <<>>
                /\ UNCHANGED submitted
           ELSE /\ signatureResult' = {r}
                /\ writeCalls' =
                      <<SubmitCall(variant, config, trimmedText, r.signature)>>
                /\ submitted' = submitted \cup
                      {[call |-> invocations,
                        tx |-> SubmitCall(variant, config, trimmedText, r.signature)]}
                /\ pc' = "write"
                /\ UNCHANGED <<result, raised>>

\* WriteSettles asking the signing API again (once) when writeContract throws.
WriteSettles_Retry(o) ==
    /\ pc = "write"
    /\ o \in WriteOutcomes(writeCalls[Len(writeCalls)])
    /\ UNCHANGED <<env, variant, text, trimmedText, config,
                   walletAddress, responseOk, data, signatureResult, receipt,
                   writeCalls, decodeCalls, world, feed, conc>>
    /\ IF o.threw /\ Len(fetchCalls) < 2
       THEN /\ fetchCalls' =
                  Append(fetchCalls, SignRequest(config, trimmedText, walletAddress))
            /\ pc' = "fetch"
            /\ UNCHANGED <<hash, receiptCalls, caught, result, raised>>
       ELSE IF o.threw
       THEN /\ caught' = {o.error}
            /\ Return(CatchResult(variant, o.error))
            /\ UNCHANGED <<hash, receiptCalls, fetchCalls>>
       ELSE /\ hash' = {o.hash}
            /\ receiptCalls' = <<o.hash>>
            /\ pc' = "receipt"
            /\ UNCHANGED <<caught, result, raised, fetchCalls>>

\* writeContract settles: with a hash, and the receipt is awaited; or it
\* throws into the catch block.
WriteSettles(o) ==
    /\ pc = "write"
    /\ o \in WriteOutcomes(writeCalls[Len(writeCalls)])
    /\ UNCHANGED <<env, variant, text, trimmedText, config,
                   walletAddress, responseOk, data, signatureResult, receipt,
                   fetchCalls, writeCalls, decodeCalls, world, feed, conc>>
    /\ IF o.threw
       THEN /\ caught' = {o.error}
            /\ Return(CatchResult(variant, o.error))
            /\ UNCHANGED <<hash, receiptCalls>>
       ELSE /\ hash' = {o.hash}
            /\ receiptCalls' = <<o.hash>>
            /\ pc' = "receipt"
            /\ UNCHANGED <<caught, result, raised>>

\* ReceiptSettles submitting the transaction again when the wait throws.
ReceiptSettles_Resubmit(o) ==
    /\ pc = "receipt"
    /\ UNCHANGED <<env, variant, text, trimmedText, config,
                   walletAddress, responseOk, data, signatureResult, hash,
                   fetchCalls, writeCalls, receiptCalls, world, feed, conc>>
    /\ IF o.threw
       THEN /\ pc' = "write"
            /\ UNCHANGED <<caught, result, raised, receipt, decodeCalls>>
       ELSE LET h == CHOOSE x \in hash : TRUE
            IN  /\ receipt' = {o}
                /\ Return(InterpretReceipt(h, o).result)
                /\ decodeCalls' = InterpretReceipt(h, o).decoded
                /\ UNCHANGED caught

\* waitForTransactionReceipt settles: with a receipt, which is interpreted;
\* or it throws into the catch block.
ReceiptSettles(o) ==
    /\ pc = "receipt"
    /\ UNCHANGED <<env, variant, text, trimmedText, config,
                   walletAddress, responseOk, data, signatureResult, hash,
                   fetchCalls, writeCalls, receiptCalls, world, feed, conc>>
    /\ IF o.threw
       THEN /\ caught' = {o.error}
            /\ Return(CatchResult(variant, o.error))
            /\ UNCHANGED <<receipt, decodeCalls>>
       ELSE LET h == CHOOSE x \in hash : TRUE
            IN  /\ receipt' = {o}
                /\ Return(InterpretReceipt(h, o).result)
                /\ decodeCalls' = InterpretReceipt(h, o).decoded
                /\ UNCHANGED caught

AllWriteOutcomes ==
    [threw : BOOLEAN, hash : Hashes \cup {""},
     error : ErrorMessages \cup {<<>>,
                                 <<"Function \"", "mintPin", "\" not found on ABI.">>,
                                 <<"Cannot read properties of undefined">>}]

Next ==
    \/ \E v \in {"post", "pin"}, t \in TextInputs : Invoke(v, t)
    \/ \E m \in ErrorMessages : FetchRejects(m)
    \/ \E ok \in BOOLEAN : FetchResponds(ok)
    \/ \E d \in JsonOutcomes : JsonSettles(d)
    \/ \E o \in AllWriteOutcomes : WriteSettles(o)
    \/ \E o \in ReceiptOutcomes : ReceiptSettles(o)

Spec == Init /\ [][Next]_vars

\* ------------------------------- posting calls made one after the other

\* A caller whose configuration is complete and who relies on the defaults.
SeqEnvs ==
    { e \in Envs : /\ e.fid = <<"1", "2">>
                   /\ e.username = "alice"
                   /\ e.privateKey = GoodKey
                   /\ e.apiUrl = ""
                   /\ e.rpcUrl \in RpcUrlValues }

\* The drafts of such a caller: two that differ once trimmed, and an empty one.
SeqTexts ==
    { StringValue(<<" ", "a">>), StringValue(<<"b">>), StringValue(<<>>) }

\* The receipts without logs, and the errors of the receipt await.
SeqReceiptOutcomes == { o \in ReceiptOutcomes : o.logs = <<>> }

InitSeq == Init /\ env \in SeqEnvs

\* The previous call has settled and the caller makes another one: the new
\* invocation starts from fresh locals; process.env and the records of the
\* signing API and of the chain client stay.
NextCall ==
    /\ pc \in Terminal
    /\ invocations < MaxCalls
    /\ pc' = "idle"
    /\ variant' = "post"
    /\ text' = StringValue(<<>>)
    /\ trimmedText' = <<>>
    /\ config' = NoConfig
    /\ walletAddress' = <<>>
    /\ responseOk' = {}
    /\ data' = {}
    /\ signatureResult' = {}
    /\ hash' = {}
    /\ receipt' = {}
    /\ caught' = {}
    /\ result' = {}
    /\ raised' = {}
    /\ fetchCalls' = <<>>
    /\ writeCalls' = <<>>
    /\ receiptCalls' = <<>>
    /\ decodeCalls' = 0
    /\ UNCHANGED <<env, world, feed, conc>>

NextSeq ==
    \/ \E v \in {"post", "pin"}, t \in SeqTexts : Invoke(v, t)
    \/ \E m \in ErrorMessages : FetchRejects(m)
    \/ \E ok \in BOOLEAN : FetchResponds(ok)
    \/ \E d \in JsonOutcomes : JsonSettles(d)
    \/ \E o \in AllWriteOutcomes : WriteSettles(o)
    \/ \E o \in SeqReceiptOutcomes : ReceiptSettles(o)
    \/ NextCall

SpecSeq == InitSeq /\ [][NextSeq]_vars

\* ------------------------------------- a posting call whose awaits settle

\* The steps in which an awaited external call (the fetch of the signing
\* API, the reading of its body, writeContract, waitForTransactionReceipt)
\* returns or fails and the call runs on to its next await or to its end.
Settle ==
    \/ \E m \in ErrorMessages : FetchRejects(m)
    \/ \E ok \in BOOLEAN : FetchResponds(ok)
    \/ \E d \in JsonOutcomes : JsonSettles(d)
    \/ \E o \in AllWriteOutcomes : WriteSettles(o)
    \/ \E o \in SeqReceiptOutcomes : ReceiptSettles(o)

NextLive ==
    \/ \E v \in {"post", "pin"}, t \in SeqTexts : Invoke(v, t)
    \/ Settle

\* One posting call, every external call of which eventually returns or
\* fails: the continuation after an await runs once the promise settles.
SpecLive == InitSeq /\ [][NextLive]_vars /\ WF_vars(Settle)

\* ------------------------------------------------------- reading the feed

\* contract.ts: DEFAULT_FEED_COUNT
DEFAULT_FEED_COUNT == 15

\* readFeed.ts: DEFAULT_RPC_URL
ReadFeedDefaultRpcUrl == "https://mainnet.base.org"

\* s.replace(pat, ""): s without the first occurrence of pat
RemoveFirst(s, pat) ==
    LET at == { i \in 1..(Len(s) - Len(pat) + 1) :
                  SubSeq(s, i, i + Len(pat) - 1) = pat }
    IN  IF at = {} THEN s
        ELSE LET i == CHOOSE x \in at : \A y \in at : x <= y
             IN  SubSeq(s, 1, i - 1) \o SubSeq(s, i + Len(pat), Len(s))

\* s.padStart(n, c)
PadStart(s, n, c) ==
    IF Len(s) >= n THEN s ELSE [i \in 1..(n - Len(s)) |-> c] \o s

\* readFeed.ts: bytes3ToHex
bytes3ToHex(color) == <<"#">> \o PadStart(RemoveFirst(color, <<"0", "x">>), 6, "0")

\* readFeed.ts: transformMessage. Number() is exact on the identifiers and
\* times of RawMessages (below 2^53); the Date is given in milliseconds.
transformMessage(raw) ==
    [id |-> raw.id,
     username |-> raw.username,
     text |-> raw.text,
     timestamp |-> raw.timestamp * 1000,
     color |-> bytes3ToHex(raw.usernameColor)]

\* rawMessages.map(transformMessage)
MapTransform(raws) == [i \in 1..Len(raws) |-> transformMessage(raws[i])]

\* The messages the contract holds (RawContractMessage).
RawMessages ==
    { [id |-> 1, author |-> "0xa11ce", fid |-> 12, username |-> "alice",
       text |-> "gm", timestamp |-> 1700, usernameColor |-> <<"0", "x", "f", "f", "0", "0", "a", "a">>],
      [id |-> 2, author |-> "0xb0b", fid |-> 7, username |-> "bob",
       text |-> "hello", timestamp |-> 1701, usernameColor |-> <<"0", "x", "0", "0", "0", "0", "0", "a">>],
      [id |-> 3, author |-> "0xa11ce", fid |-> 12, username |-> "alice",
       text |-> "gm", timestamp |-> 1702, usernameColor |-> <<"0", "x", "f", "f", "0", "0", "a", "a">>] }

\* The lists the contract can return: up to MaxFeed messages, none twice.
RawLists ==
    { l \in UNION { [1..n -> RawMessages] : n \in 0..MaxFeed } :
        \A i, j \in 1..Len(l) : l[i] = l[j] => i = j }

\* The count argument of readFeed: {} is absent; a count is a number of
\* messages, 0 included.
FeedCounts == { {} } \cup { {n} : n \in 0..(MaxFeed + 1) }

\* The errors of a read: the RPC endpoint is unreachable, or the call fails.
ReadErrors == { <<"fetch failed">>, <<"execution reverted">> }

\* count || DEFAULT_FEED_COUNT: a count of 0 is replaced by the default too.
MessageCount_OrDefault(count) ==
    IF count = {} \/ count = {0} THEN DEFAULT_FEED_COUNT
    ELSE CHOOSE n \in count : TRUE

\* const messageCount = count ?? DEFAULT_FEED_COUNT
MessageCount(count) ==
    IF count = {} THEN DEFAULT_FEED_COUNT ELSE CHOOSE n \in count : TRUE

\* The arguments of client.readContract, and the transport's URL
ReadCall(count, rpcUrl) ==
    [address |-> CONTRACT_ADDRESS,
     functionName |-> "getRecentMessages",
     count |-> MessageCount(count),
     rpcUrl |-> IF rpcUrl # "" THEN rpcUrl ELSE ReadFeedDefaultRpcUrl]

\* How readContract settles: it throws, or it returns at most the number of
\* messages asked for.
AllReadOutcomes ==
    { [threw |-> FALSE, messages |-> l, error |-> <<>>] : l \in RawLists }
    \cup { [threw |-> TRUE, messages |-> <<>>, error |-> m] : m \in ReadErrors }

ReadOutcomes(call) ==
    { o \in AllReadOutcomes : Len(o.messages) <= call.count }

\* readFeed(count, rpcUrl) is called and runs up to its await.
ReadFeedInvoke(count, rpcUrl) ==
    /\ feedPc = "idle"
    /\ feedArgs' = [count |-> count, rpcUrl |-> rpcUrl]
    /\ readCalls' = <<ReadCall(count, rpcUrl)>>
    /\ feedPc' = "read"
    /\ UNCHANGED <<env, pc, variant, text, locals, result, raised, calls, world, conc,
                   feedRaw, feedResult, feedRaised>>

\* ReadFeedEnd with the error of the read caught and an empty feed returned.
ReadFeedEnd_CatchAll(o) ==
    IF o.threw
    THEN [pc |-> "returned", raw |-> {}, result |-> {[messages |-> <<>>]},
          raised |-> {}]
    ELSE [pc |-> "returned", raw |-> {o.messages},
          result |-> {[messages |-> MapTransform(o.messages)]}, raised |-> {}]

\* readFeed from the settling of readContract on: there is no try block, so
\* an error of the read rejects readFeed's promise.
ReadFeedEnd(o) ==
    IF o.threw
    THEN [pc |-> "raised", raw |-> {}, result |-> {}, raised |-> {o.error}]
    ELSE [pc |-> "returned", raw |-> {o.messages},
          result |-> {[messages |-> MapTransform(o.messages)]}, raised |-> {}]

\* readContract settles with o and readFeed runs to its end.
ReadSettles(o) ==
    /\ feedPc = "read"
    /\ o \in ReadOutcomes(readCalls[1])
    /\ feedPc' = ReadFeedEnd(o).pc
    /\ feedRaw' = ReadFeedEnd(o).raw
    /\ feedResult' = ReadFeedEnd(o).result
    /\ feedRaised' = ReadFeedEnd(o).raised
    /\ UNCHANGED <<env, pc, variant, text, locals, result, raised, calls, world, conc,
                   feedArgs, readCalls>>

InitFeed == Init /\ env \in SeqEnvs

NextFeed ==
    \/ \E c \in FeedCounts, u \in RpcUrlValues : ReadFeedInvoke(c, u)
    \/ \E o \in AllReadOutcomes : ReadSettles(o)

SpecFeed == InitFeed /\ [][NextFeed]_vars

\* ------------------------------------------ calls in flight at the same time

\* postMessage(t) (v = "post") or postPinMessage(t) (v = "pin") up to its
\* first await, on locals of its own (as Invoke)
BeginPost(v, t, e) ==
    LET f == [NewFrame EXCEPT !.kind = v, !.text = t]
        invalid == ValidateText(t)
        loaded == loadConfig(e)
        account == privateKeyToAccount(loaded.config.privateKey)
        trimmed == Trim(t.chars)
    IN  IF invalid # {}
        THEN [f EXCEPT !.pc = "returned",
                       !.result = {Failure(CHOOSE m \in invalid : TRUE)},
                       !.trimmedText = IF t.type = "string" /\ ~IsFalsy(t)
                                       THEN trimmed ELSE <<>>]
        ELSE IF loaded.threw
        THEN [f EXCEPT !.pc = "returned",
                       !.result = {Failure(loaded.error)},
                       !.trimmedText = trimmed]
        ELSE IF account.threw
        THEN [f EXCEPT !.pc = "raised",
                       !.raised = {account.error},
                       !.trimmedText = trimmed,
                       !.config = loaded.config]
        ELSE [f EXCEPT !.pc = "fetch",
                       !.trimmedText = trimmed,
                       !.config = loaded.config,
                       !.walletAddress = account.address,
                       !.fetchCalls = <<SignRequest(loaded.config, trimmed,
                                                    account.address)>>]

\* readFeed(c) up to its await, on locals of its own (as ReadFeedInvoke)
BeginRead(c) ==
    [NewFrame EXCEPT !.kind = "read", !.pc = "read", !.count = c,
                     !.readCalls = <<ReadCall(c, "")>>]

\* Resume with a signature kept in a variable of the module: the call
\* submits the signature the call of the lowest number obtained.
Resume_SharedSignature(f, r) ==
    IF f.pc = "fetch"
    THEN IF r.threw
         THEN [f EXCEPT !.pc = "raised", !.raised = {r.error}]
         ELSE [f EXCEPT !.pc = "json", !.responseOk = {r.ok}]
    ELSE IF f.pc = "json"
    THEN LET ok == CHOOSE b \in f.responseOk : TRUE
             g == getSignatureReturn(ok, r)
         IN  IF r.kind = "nonjson"
             THEN [f EXCEPT !.pc = "raised", !.data = {r},
                            !.raised = {<<"Unexpected token in JSON">>}]
             ELSE IF g.kind = "throw"
             THEN [f EXCEPT !.pc = "raised", !.data = {r}, !.raised = {g.error}]
             ELSE IF HasError(g)
             THEN [f EXCEPT !.pc = "returned", !.data = {r},
                            !.signatureResult = {g},
                            !.result = {Failure(g.error)}]
             ELSE [f EXCEPT !.pc = "write", !.data = {r},
                            !.signatureResult = {g},
                            !.writeCalls =
                                <<SubmitCall(f.kind, f.config, f.trimmedText,
                                             LET have == { j \in 1..Len(frames) :
                                                            frames[j].signatureResult # {} }
                                             IN  IF have = {} THEN g.signature
                                                 ELSE (CHOOSE x \in
                                                         frames[CHOOSE j \in have :
                                                                  \A k \in have : j <= k]
                                                           .signatureResult : TRUE).signature)>>]
    ELSE IF f.pc = "write"
    THEN IF r.threw
         THEN [f EXCEPT !.pc = "returned", !.caught = {r.error},
                        !.result = {CatchResult(f.kind, r.error)}]
         ELSE [f EXCEPT !.pc = "receipt", !.hash = {r.hash},
                        !.receiptCalls = <<r.hash>>]
    ELSE IF f.pc = "receipt"
    THEN IF r.threw
         THEN [f EXCEPT !.pc = "returned", !.caught = {r.error},
                        !.result = {CatchResult(f.kind, r.error)}]
         ELSE LET h == CHOOSE x \in f.hash : TRUE
              IN  [f EXCEPT !.pc = "returned", !.receipt = {r},
                             !.result = {InterpretReceipt(h, r).result},
                             !.decodeCalls = InterpretReceipt(h, r).decoded]
    ELSE IF f.pc = "read"
    THEN [f EXCEPT !.pc = ReadFeedEnd(r).pc, !.feedRaw = ReadFeedEnd(r).raw,
                   !.result = ReadFeedEnd(r).result,
                   !.raised = ReadFeedEnd(r).raised]
    ELSE f

\* The call with locals f is resumed by the answer r to the await it is
\* suspended at, and runs to its next await or to its end (as FetchRejects,
\* FetchResponds, JsonSettles, WriteSettles, ReceiptSettles, ReadSettles).
Resume(f, r) ==
    IF f.pc = "fetch"
    THEN IF r.threw
         THEN [f EXCEPT !.pc = "raised", !.raised = {r.error}]
         ELSE [f EXCEPT !.pc = "json", !.responseOk = {r.ok}]
    ELSE IF f.pc = "json"
    THEN LET ok == CHOOSE b \in f.responseOk : TRUE
             g == getSignatureReturn(ok, r)
         IN  IF r.kind = "nonjson"
             THEN [f EXCEPT !.pc = "raised", !.data = {r},
                            !.raised = {<<"Unexpected token in JSON">>}]
             ELSE IF g.kind = "throw"
             THEN [f EXCEPT !.pc = "raised", !.data = {r}, !.raised = {g.error}]
             ELSE IF HasError(g)
             THEN [f EXCEPT !.pc = "returned", !.data = {r},
                            !.signatureResult = {g},
                            !.result = {Failure(g.error)}]
             ELSE [f EXCEPT !.pc = "write", !.data = {r},
                            !.signatureResult = {g},
                            !.writeCalls =
                                <<SubmitCall(f.kind, f.config, f.trimmedText,
                                             g.signature)>>]
    ELSE IF f.pc = "write"
    THEN IF r.threw
         THEN [f EXCEPT !.pc = "returned", !.caught = {r.error},
                        !.result = {CatchResult(f.kind, r.error)}]
         ELSE [f EXCEPT !.pc = "receipt", !.hash = {r.hash},
                        !.receiptCalls = <<r.hash>>]
    ELSE IF f.pc = "receipt"
    THEN IF r.threw
         THEN [f EXCEPT !.pc = "returned", !.caught = {r.error},
                        !.result = {CatchResult(f.kind, r.error)}]
         ELSE LET h == CHOOSE x \in f.hash : TRUE
              IN  [f EXCEPT !.pc = "returned", !.receipt = {r},
                             !.result = {InterpretReceipt(h, r).result},
                             !.decodeCalls = InterpretReceipt(h, r).decoded]
    ELSE IF f.pc = "read"
    THEN [f EXCEPT !.pc = ReadFeedEnd(r).pc, !.feedRaw = ReadFeedEnd(r).raw,
                   !.result = ReadFeedEnd(r).result,
                   !.raised = ReadFeedEnd(r).raised]
    ELSE f

\* The answers to the await the call with locals f is suspended at: the API
\* answers with a signature under a success status and with an error under
\* another status; the chain client returns or throws.
Answers(f) ==
    IF f.pc = "fetch"
    THEN { [threw |-> FALSE, ok |-> TRUE, error |-> <<>>],
           [threw |-> FALSE, ok |-> FALSE, error |-> <<>>] }
    ELSE IF f.pc = "json"
    THEN { d \in JsonOutcomes :
             /\ d.kind = "object"
             /\ (d.error = <<>>) # (d.signature = {})
             /\ (d.signature # {}) = (f.responseOk = {TRUE}) }
    ELSE IF f.pc = "write"
    THEN { o \in WriteOutcomes(f.writeCalls[1]) :
             /\ o.hash # "0xhash2"
             /\ o.error \in ErrorMessages => o.error = <<"fetch failed">> }
    ELSE IF f.pc = "receipt"
    THEN { o \in SeqReceiptOutcomes :
             /\ o.reason # <<"Paused">>
             /\ o.threw => o.error = <<"fetch failed">> }
    ELSE IF f.pc = "read"
    THEN { o \in ReadOutcomes(f.readCalls[1]) :
             /\ \A k \in 1..Len(o.messages) : o.messages[k].id = 1
             /\ o.threw => o.error = <<"fetch failed">> }
    ELSE {}

\* The calls made at the same time: two posts of different drafts, a pinned
\* post, and a read of the feed.
ConcPosts ==
    { [kind |-> "post", text |-> StringValue(<<" ", "a">>)],
      [kind |-> "post", text |-> StringValue(<<"b">>)],
      [kind |-> "pin", text |-> StringValue(<<"b">>)] }

\* Call c is made while the calls made before it are in flight.
ConcPost(c) ==
    /\ Len(frames) < MaxConc
    /\ frames' = Append(frames, BeginPost(c.kind, c.text, env))
    /\ heard' = Append(heard, <<>>)
    /\ UNCHANGED <<env, pc, variant, text, locals, result, raised, calls, world,
                   feed>>

ConcRead ==
    /\ Len(frames) < MaxConc
    /\ frames' = Append(frames, BeginRead({}))
    /\ heard' = Append(heard, <<>>)
    /\ UNCHANGED <<env, pc, variant, text, locals, result, raised, calls, world,
                   feed>>

\* The await of call i settles with r; the others stay suspended.
ConcSettle(i, r) ==
    /\ frames' = [frames EXCEPT ![i] = Resume(frames[i], r)]
    /\ heard' = [heard EXCEPT ![i] = Append(heard[i], r)]
    /\ UNCHANGED <<env, pc, variant, text, locals, result, raised, calls, world,
                   feed>>

InitConc == Init /\ env \in SeqEnvs /\ env.rpcUrl = ""

NextConc ==
    \/ \E c \in ConcPosts : ConcPost(c)
    \/ ConcRead
    \/ \E i \in 1..Len(frames) : \E r \in Answers(frames[i]) : ConcSettle(i, r)

SpecConc == InitConc /\ [][NextConc]_vars

\* --------------------------------------- the two variants side by side

\* Every answer to the await the call with locals f is suspended at.
PairAnswers(f) ==
    IF f.pc = "fetch"
    THEN { [threw |-> TRUE, ok |-> FALSE, error |-> m] : m \in ErrorMessages }
         \cup { [threw |-> FALSE, ok |-> b, error |-> <<>>] : b \in BOOLEAN }
    ELSE IF f.pc = "json" THEN JsonOutcomes
    ELSE IF f.pc = "write" THEN WriteOutcomes(f.writeCalls[1])
    ELSE IF f.pc = "receipt" THEN SeqReceiptOutcomes
    ELSE {}

\* The call with locals f, run beside a call that got the answer r: it gets
\* r too where its await can settle with r; where it cannot (its
\* writeContract call throws before anything is sent) it gets the answer its
\* own await settles with; a call that has ended stays as it is.
ResumeBeside(f, r) ==
    IF PairAnswers(f) = {} THEN f
    ELSE IF r \in PairAnswers(f) THEN Resume(f, r)
    ELSE Resume(f, CHOOSE x \in PairAnswers(f) : TRUE)

\* postMessage(t) and postPinMessage(t) are called on the same text and the
\* same process.env.
PairStart(t) ==
    /\ frames = <<>>
    /\ frames' = <<BeginPost("post", t, env), BeginPost("pin", t, env)>>
    /\ heard' = <<<<>>, <<>>>>
    /\ UNCHANGED <<env, pc, variant, text, locals, result, raised, calls, world,
                   feed>>

\* The collaborators answer the await of postMessage with r, and that of
\* postPinMessage alike.
PairSettle(r) ==
    /\ Len(frames) = 2
    /\ r \in PairAnswers(frames[1])
    /\ frames' = <<Resume(frames[1], r), ResumeBeside(frames[2], r)>>
    /\ heard' = <<Append(heard[1], r),
                  IF PairAnswers(frames[2]) = {} THEN heard[2]
                  ELSE Append(heard[2], r)>>
    /\ UNCHANGED <<env, pc, variant, text, locals, result, raised, calls, world,
                   feed>>

AllPairAnswers ==
    { [threw |-> TRUE, ok |-> FALSE, error |-> m] : m \in ErrorMessages }
    \cup { [threw |-> FALSE, ok |-> b, error |-> <<>>] : b \in BOOLEAN }
    \cup JsonOutcomes \cup AllWriteOutcomes \cup SeqReceiptOutcomes

NextPair ==
    \/ \E t \in SeqTexts : PairStart(t)
    \/ \E r \in AllPairAnswers : PairSettle(r)

SpecPair == Init /\ [][NextPair]_vars

\* ------------------------------------------------------------ claims

\* The result the call returned (when pc = "returned").
TheResult == CHOOSE r \in result : TRUE

IsFailure(r) == r.success = FALSE /\ r.error # {}

NoExternalCall ==
    fetchCalls = <<>> /\ writeCalls = <<>> /\ receiptCalls = <<>>

\* The draft is invalid: no string, or its trimmed length is 0 or above 120.
InvalidDraft(t) ==
    \/ t.type # "string"
    \/ Len(Trim(t.chars)) = 0
    \/ Len(Trim(t.chars)) > MAX_MESSAGE_LENGTH

TooLongDraft(t) ==
    t.type = "string" /\ Len(Trim(t.chars)) > MAX_MESSAGE_LENGTH

\* C1: a call whose text is no string, or has trimmed length 0 or above 120,
\* returns a failure result and makes no call to the signing API or to the
\* chain; when the trimmed length is above 120 the error mentions "too long".
C1_InvalidTextNoCalls ==
    (pc # "idle" /\ InvalidDraft(text)) =>
        /\ pc = "returned"
        /\ IsFailure(TheResult)
        /\ NoExternalCall
        /\ decodeCalls = 0
        /\ TooLongDraft(text) =>
              \E m \in TheResult.error : Includes(m, <<"too long">>)

\* A draft of 121 characters between blanks was refused although the
\* configuration is complete.
C1_Witness ==
    /\ pc = "returned"
    /\ TooLongDraft(text)
    /\ Len(text.chars) > Len(Trim(text.chars))
    /\ ~loadConfig(env).threw
    /\ IsFailure(TheResult)

\* C2: when the signing API answers with a non-success status and
\* getSignature reports the failure, the call returns a failure whose error
\* is exactly the message getSignature reported, and neither writeContract
\* nor waitForTransactionReceipt is called.
C2_ApiFailureVerbatim ==
    \A r \in signatureResult :
        responseOk = {FALSE} =>
            /\ r.kind = "error"
            /\ pc = "returned"
            /\ result = {Failure(r.error)}
            /\ writeCalls = <<>>
            /\ receiptCalls = <<>>

\* The API answered with a non-success status and a message of its own.
C2_Witness ==
    /\ pc = "returned"
    /\ responseOk = {FALSE}
    /\ \E r \in signatureResult : r.error = <<"Wallet not verified for FID">>
    /\ \E d \in data : d.error = <<"Wallet not verified for FID">>

\* C3: a call never rejects: whatever the collaborators do after
\* validation, it ends by returning a failure result.
C3_NeverRaises ==
    /\ pc # "raised"
    /\ (pc = "returned" /\ caught # {}) => IsFailure(TheResult)

\* C4: when the receipt's status is not success the call returns the failure
\* "Transaction reverted" with the hash the submission returned, and decodes
\* no log.
C4_RevertedCarriesHash ==
    \A rc \in receipt :
        rc.status # "success" =>
            /\ pc = "returned"
            /\ hash # {}
            /\ \A w \in hash : w = receiptCalls[1]
            /\ result = {Result(FALSE, {}, hash, {<<"Transaction reverted">>})}
            /\ decodeCalls = 0

\* A reverted receipt that holds a mint log.
C4_Witness ==
    /\ pc = "returned"
    /\ \E rc \in receipt :
          /\ rc.status = "reverted"
          /\ \E i \in 1..Len(rc.logs) : rc.logs[i].event = "MessageMinted"
    /\ IsFailure(TheResult)

\* The log decodes as a MessageMinted event.
IsMintLog(log) ==
    ~decodeEventLog(log).threw /\ decodeEventLog(log).eventName = "MessageMinted"

MintPositions(logs) == { i \in 1..Len(logs) : IsMintLog(logs[i]) }

FirstMintPosition(logs) ==
    CHOOSE i \in MintPositions(logs) : \A j \in MintPositions(logs) : i <= j

\* C5: when the receipt's status is success and some log decodes as a
\* MessageMinted event, the call returns success with the hash the submission
\* returned and the tokenId of the first such log in receipt order; logs that
\* do not decode or decode as another event are skipped.
C5_FirstMintTokenId ==
    \A rc \in receipt :
        (rc.status = "success" /\ MintPositions(rc.logs) # {}) =>
            /\ pc = "returned"
            /\ hash # {}
            /\ result = {Result(TRUE,
                                {rc.logs[FirstMintPosition(rc.logs)].tokenId},
                                hash, {})}

\* The mint log comes second, after a StickySet log.
C5_Witness ==
    /\ pc = "returned"
    /\ \E rc \in receipt :
          /\ rc.status = "success"
          /\ Len(rc.logs) = 2
          /\ rc.logs[1].event = "StickySet"
          /\ IsMintLog(rc.logs[2])
          /\ TheResult.tokenId = {rc.logs[2].tokenId}

\* C6: when the receipt's status is success and no log decodes as a
\* MessageMinted event, the call returns success with the hash and without
\* tokenId.
C6_NoMintStillSuccess ==
    \A rc \in receipt :
        (rc.status = "success" /\ MintPositions(rc.logs) = {}) =>
            /\ pc = "returned"
            /\ hash # {}
            /\ result = {Result(TRUE, {}, hash, {})}

\* A successful receipt whose logs are all foreign or malformed.
C6_Witness ==
    /\ pc = "returned"
    /\ \E rc \in receipt :
          /\ rc.status = "success"
          /\ Len(rc.logs) = 2
          /\ MintPositions(rc.logs) = {}
          /\ \E i \in 1..2 : rc.logs[i].event = "MessageMinted"
    /\ TheResult.success

\* C7: every writeContract call of postMessage attaches PRICE_WEI and every
\* writeContract call of postPinMessage attaches PIN_PRICE_WEI, which is ten
\* times PRICE_WEI.
C7_AttachedValue ==
    /\ PIN_PRICE_WEI = 10 * PRICE_WEI
    /\ \A i \in 1..Len(writeCalls) :
          writeCalls[i].value = IF variant = "post" THEN PRICE_WEI
                                ELSE 10 * PRICE_WEI

\* postPinMessage called writeContract for a draft of 120 characters.
C7_Witness ==
    /\ variant = "pin"
    /\ Len(writeCalls) = 1
    /\ Len(writeCalls[1].args.text) = MAX_MESSAGE_LENGTH

\* PUBLIC_TERMINAL_FID is a positive decimal integer.
FidWellFormed(s) == ~parseInt(s).nan /\ parseInt(s).val > 0

\* The identity id, the display name or the signing key is missing or
\* malformed.
ConfigBad(e) ==
    \/ e.fid = <<>> \/ ~FidWellFormed(e.fid)
    \/ e.username = ""
    \/ e.privateKey = <<>> \/ ~IsPrivateKeyEncoding(e.privateKey)

\* C8: for a valid draft and a missing or malformed identity id, display
\* name or signing key, the call returns a failure result and makes no call
\* to the signing API or the chain.
C8_ConfigErrorReturned ==
    (pc # "idle" /\ ~InvalidDraft(text) /\ ConfigBad(env)) =>
        /\ pc = "returned"
        /\ IsFailure(TheResult)
        /\ NoExternalCall

\* C9: when writeContract returned a hash and waitForTransactionReceipt then
\* throws, the failure result carries the raw message and the hash.
C9_ReceiptErrorCarriesHash ==
    (pc = "returned" /\ hash # {} /\ caught # {}) =>
        result = {Result(FALSE, {}, hash, caught)}

Rank(p) ==
    CASE p = "idle" -> 0
      [] p \in {"fetch", "json"} -> 1
      [] p = "write" -> 2
      [] p = "receipt" -> 3
      [] p \in Terminal -> 4

IsPrefix(s, t) == Len(s) <= Len(t) /\ SubSeq(t, 1, Len(s)) = s

\* C10: within one call the signing API is called at most once, writeContract
\* at most once and waitForTransactionReceipt at most once; writeContract is
\* called only after getSignature returned a signature result, the receipt is
\* awaited only for the hash writeContract returned; and every step moves the
\* call to a later stage (or from the fetch to its body) without undoing or
\* repeating a call.
C10_ForwardOnly ==
    /\ [](/\ Len(fetchCalls) <= 1
          /\ Len(writeCalls) <= 1
          /\ Len(receiptCalls) <= 1
          /\ writeCalls # <<>> =>
                /\ fetchCalls # <<>>
                /\ \E r \in signatureResult : r.kind = "signature"
          /\ receiptCalls # <<>> =>
                /\ writeCalls # <<>>
                /\ hash = {receiptCalls[1]}
          /\ Rank(pc) \in {1, 2, 3} => Len(fetchCalls) = 1
          /\ Rank(pc) \in {2, 3} => Len(writeCalls) = 1
          /\ Rank(pc) = 3 => Len(receiptCalls) = 1)
    /\ [][/\ Rank(pc') > Rank(pc) \/ (pc = "fetch" /\ pc' = "json")
          /\ pc # "idle" =>
                /\ IsPrefix(fetchCalls, fetchCalls')
                /\ IsPrefix(writeCalls, writeCalls')
                /\ IsPrefix(receiptCalls, receiptCalls')]_vars

\* A call went through all four stages and returned.
C10_Witness ==
    /\ pc = "returned"
    /\ Len(fetchCalls) = 1 /\ Len(writeCalls) = 1 /\ Len(receiptCalls) = 1
    /\ receipt # {}

\* The body the signing API answered the current call with.
TheData == CHOOSE d \in data : TRUE

\* C11: the signature a posting call hands to writeContract is the one the
\* signing API returned to that same call, and a call makes at most one
\* writeContract call; the fid, username and text submitted are those of the
\* request the signature was issued for, and the address of that request is
\* the address of the account that signs the transaction. This holds for each
\* of several calls made one after the other: no call submits the signature
\* or the draft of another call's request.
C11_SignatureBinding ==
    /\ \A s \in submitted :
          /\ \A s2 \in submitted : s2.call = s.call => s2 = s
          /\ s.tx.args.signature # {} =>
                \E g \in granted :
                    /\ g.call = s.call
                    /\ g.signature = s.tx.args.signature
                    /\ g.request.fid = s.tx.args.fid
                    /\ g.request.username = s.tx.args.username
                    /\ g.request.text = s.tx.args.text
                    /\ g.request.address = s.tx.account
    /\ writeCalls # <<>> =>
          /\ Len(writeCalls) = 1
          /\ [call |-> invocations, tx |-> writeCalls[1]] \in submitted
          /\ writeCalls[1].args.signature = TheData.signature
          /\ writeCalls[1].args.text = fetchCalls[1].text
          /\ writeCalls[1].args.fid = fetchCalls[1].fid
          /\ writeCalls[1].args.username = fetchCalls[1].username
          /\ writeCalls[1].account = fetchCalls[1].address

\* Two calls, one after the other, submitted different drafts (one of them
\* passed with a leading blank) with different signatures.
C11_Witness ==
    /\ invocations = 2
    /\ pc = "returned"
    /\ \E s1, s2 \in submitted :
          /\ s1.call = 1 /\ s2.call = 2
          /\ s1.tx.args.text # s2.tx.args.text
          /\ s1.tx.args.signature # {} /\ s2.tx.args.signature # {}
          /\ s1.tx.args.signature # s2.tx.args.signature
          /\ s1.tx.args.text = <<"a">>

\* The status the signing API answered the current call with.
TheStatusOk == CHOOSE b \in responseOk : TRUE

\* The API's body is malformed: it is no JSON, or it came with a success
\* status and holds no signature.
MalformedBody ==
    /\ responseOk # {} /\ data # {}
    /\ \/ TheData.kind = "nonjson"
       \/ TheStatusOk /\ TheData.signature = {}

\* C12: when the signing API answers with a malformed body, the call returns
\* a failure result and makes no writeContract call.
C12_MalformedBodyIsApiFailure ==
    (pc \in Terminal /\ MalformedBody) =>
        /\ pc = "returned"
        /\ IsFailure(TheResult)
        /\ writeCalls = <<>>

\* The message the claim reports for a non-success status with body d.
StatusFailureMessage(d) ==
    IF d.error # <<>> THEN d.error ELSE <<"Failed to get signature from API">>

\* C13: after a non-success status the call returns a failure whose message
\* is the error string of the body when there is a non-empty one and
\* "Failed to get signature from API" otherwise; after a success status
\* getSignature returns no error result.
C13_StatusDecidesMessage ==
    (pc \in Terminal /\ responseOk # {} /\ data # {}) =>
        IF TheStatusOk
        THEN \A r \in signatureResult : r.kind # "error"
        ELSE /\ pc = "returned"
             /\ TheResult.success = FALSE
             /\ TheResult.error = {StatusFailureMessage(TheData)}

\* C14 as stated: for a mined transaction whose receipt reports a revert, the
\* failure message is derived from the reason of the revert, the hint for a
\* known reason and the raw reason otherwise.
C14_RevertReasonReported ==
    \A rc \in receipt :
        (pc = "returned" /\ rc.status = "reverted") =>
            TheResult.error = CatchResult(variant, rc.reason).error

\* C14: for a mined transaction whose receipt reports a revert, the failure
\* message is the fixed text "Transaction reverted" whatever the reason of
\* the revert, and the catch block has not run; the hints and the raw message
\* come from the catch block only, that is for an error writeContract or
\* waitForTransactionReceipt threw, when no receipt was obtained.
C14_RevertedFixedMessage ==
    /\ \A rc \in receipt :
          (pc = "returned" /\ rc.status = "reverted") =>
              /\ TheResult.success = FALSE
              /\ TheResult.error = {<<"Transaction reverted">>}
              /\ TheResult.txHash = hash
              /\ caught = {}
    /\ \A m \in caught :
          /\ receipt = {}
          /\ pc = "returned"
          /\ TheResult = CatchResult(variant, m)

\* A mined transaction the contract reverted for insufficient payment.
C14_Witness ==
    /\ pc = "returned"
    /\ \E rc \in receipt :
          rc.status = "reverted" /\ rc.reason = <<"InsufficientPayment">>
    /\ TheResult.error = {<<"Transaction reverted">>}

\* loadConfig raised an error that names variable v, and postMessage returned
\* it as a failure without resolving a configuration.
ReportsVariable(r, v) ==
    /\ r.threw
    /\ Includes(r.error, <<v>>)
    /\ config = NoConfig
    /\ pc = "returned"
    /\ TheResult = Failure(r.error)

\* C15: loadConfig checks in this order that the identity id is present, the
\* display name is present, the signing key is present, the identity id
\* parses as a positive integer and the signing key is well-formed; it raises
\* on the first check that fails, naming the variable, and returns a
\* configuration only when all five pass, with fid > 0, a non-empty username
\* and apiBaseUrl and rpcUrl set to the override or the default.
C15_ValidationOrder ==
    (pc # "idle" /\ ~InvalidDraft(text)) =>
        LET r == loadConfig(env)
        IN  IF env.fid = <<>>
            THEN ReportsVariable(r, "PUBLIC_TERMINAL_FID")
            ELSE IF env.username = ""
            THEN ReportsVariable(r, "PUBLIC_TERMINAL_USERNAME")
            ELSE IF env.privateKey = <<>>
            THEN ReportsVariable(r, "PUBLIC_TERMINAL_PRIVATE_KEY")
            ELSE IF ~FidWellFormed(env.fid)
            THEN ReportsVariable(r, "PUBLIC_TERMINAL_FID")
            ELSE IF ~IsPrivateKeyEncoding(env.privateKey)
            THEN ReportsVariable(r, "PUBLIC_TERMINAL_PRIVATE_KEY")
            ELSE /\ ~r.threw
                 /\ config = r.config
                 /\ config.fid > 0
                 /\ config.username # ""
                 /\ config.apiBaseUrl =
                        IF env.apiUrl # "" THEN env.apiUrl ELSE ConfigDefaultApiUrl
                 /\ config.rpcUrl =
                        IF env.rpcUrl # "" THEN env.rpcUrl ELSE ConfigDefaultRpcUrl

\* C16: readFeed issues exactly one read call, getRecentMessages, asking for
\* the count it was given or for 15 when it was given none (0 is asked for as
\* 0); it returns the messages of that call one to one, in the same order and
\* of the same length; when the call returned fewer messages than asked for,
\* readFeed returns them all and raises no error.
C16_OneReadMappedInOrder ==
    /\ feedPc # "idle" =>
          /\ Len(readCalls) = 1
          /\ readCalls[1].functionName = "getRecentMessages"
          /\ readCalls[1].address = CONTRACT_ADDRESS
          /\ feedArgs.count = {} => readCalls[1].count = 15
          /\ \A n \in feedArgs.count : readCalls[1].count = n
    /\ \A raws \in feedRaw :
          /\ feedPc = "returned"
          /\ feedRaised = {}
          /\ Len(raws) <= readCalls[1].count
          /\ \E r \in feedResult :
                /\ feedResult = {r}
                /\ Len(r.messages) = Len(raws)
                /\ \A i \in 1..Len(raws) :
                      /\ r.messages[i].id = raws[i].id
                      /\ r.messages[i].username = raws[i].username
                      /\ r.messages[i].text = raws[i].text
                      /\ r.messages[i].timestamp = 1000 * raws[i].timestamp
                      /\ r.messages[i].color =
                            <<"#">> \o SubSeq(raws[i].usernameColor, 3, 8)

\* readFeed() with no count on a feed of two messages: 15 are asked for and
\* the two are returned, the newer first.
C16_Witness ==
    /\ feedPc = "returned"
    /\ feedArgs.count = {}
    /\ readCalls[1].count = 15
    /\ \E r \in feedResult :
          /\ Len(r.messages) = 2
          /\ r.messages[1].id = 2 /\ r.messages[2].id = 1
          /\ r.messages[1].color = <<"#", "0", "0", "0", "0", "0", "a">>

\* C17 as stated: readFeed never raises, whatever the chain RPC does; it
\* ends by returning a result.
C17_ReadFeedNeverRaises ==
    /\ feedPc # "raised"
    /\ feedRaised = {}

\* C17: readFeed has no failure result. It returns the messages exactly when
\* the read call returned, and it raises, with the error of the read call,
\* when the node is unreachable or the read call fails.
C17_ReadFeedRaisesOnReadError ==
    /\ feedPc = "returned" =>
          /\ feedRaw # {}
          /\ feedResult # {}
          /\ feedRaised = {}
    /\ feedPc = "raised" =>
          /\ feedRaw = {}
          /\ feedResult = {}
          /\ \E m \in ReadErrors : feedRaised = {m}
    /\ feedPc \in {"idle", "read"} => feedResult = {} /\ feedRaised = {}

\* The node was unreachable and readFeed raised.
C17_Witness ==
    /\ feedPc = "raised"
    /\ feedRaised = {<<"fetch failed">>}
    /\ Len(readCalls) = 1

\* The call with locals f as it started, before any of its awaits settled.
Started(f) ==
    IF f.kind = "read" THEN BeginRead(f.count)
    ELSE BeginPost(f.kind, f.text, env)

\* The call run alone: started, then resumed by the answers rs in turn.
RECURSIVE RunAlone(_, _)
RunAlone(f, rs) ==
    IF rs = <<>> THEN f ELSE RunAlone(Resume(f, Head(rs)), Tail(rs))

\* C18: calls in flight at the same time are independent. Whatever the
\* interleaving of two or more postMessage, postPinMessage and readFeed
\* calls, each call is where it would be had it run alone with the answers
\* its collaborators gave it: same outcome, and the text and the signature
\* it submits are its own trimmed text and the signature of its own API
\* answer; and a step of one call changes nothing of another call. (Stated
\* of the call that takes a step, in the state the step leads to; the other
\* calls are as the step found them.)
C18_Independent ==
    [][\A i \in 1..Len(frames') :
         (i > Len(frames) \/ frames'[i] # frames[i] \/ heard'[i] # heard[i]) =>
             /\ frames'[i] = RunAlone(Started(frames'[i]), heard'[i])
             /\ frames'[i].writeCalls # <<>> =>
                   /\ frames'[i].writeCalls[1].args.text =
                         Trim(frames'[i].text.chars)
                   /\ \E d \in frames'[i].data :
                         frames'[i].writeCalls[1].args.signature = d.signature
             /\ \A j \in (1..Len(frames)) \ {i} :
                   frames'[j] = frames[j] /\ heard'[j] = heard[j]]_vars

\* Two posts of different drafts were in flight at the same time and both
\* have returned: each submitted its own draft with the signature it got, the
\* first got a receipt and the second an error of the chain client.
C18_Witness ==
    /\ Len(frames) = 2
    /\ frames[1].kind = "post" /\ frames[2].kind = "post"
    /\ frames[1].pc = "returned" /\ frames[2].pc = "returned"
    /\ frames[1].result # frames[2].result
    /\ frames[1].writeCalls # <<>> /\ frames[2].writeCalls # <<>>
    /\ frames[1].writeCalls[1].args.text = <<"a">>
    /\ frames[2].writeCalls[1].args.text = <<"b">>
    /\ frames[1].writeCalls[1].args.signature = {"0xdef"}
    /\ frames[2].writeCalls[1].args.signature = {"0xabc"}
    /\ frames[1].receipt # {} /\ frames[2].caught # {}

\* C19: each posting variant calls a function the ABI it passes declares,
\* postMessage the function mint, with the arguments fid, username, text and
\* signature; so a submission with a granted signature can return a hash and
\* the call can go on to await the receipt, in the pinned variant as in the
\* normal one.
C19_EntryPointDeclared ==
    \A i \in 1..Len(writeCalls) :
        /\ writeCalls[i].functionName \in AbiFunctions
        /\ variant = "post" => writeCalls[i].functionName = "mint"
        /\ DOMAIN writeCalls[i].args = {"fid", "username", "text", "signature"}
        /\ (pc = "write" /\ writeCalls[i].args.signature # {}) =>
              \E o \in WriteOutcomes(writeCalls[i]) : ~o.threw

\* C20: when writeContract or waitForTransactionReceipt throws, the call
\* returns success = false, and the error is chosen by the first of the names
\* InsufficientPayment, MessageTooLong, InvalidSignature, taken in this
\* order, that the thrown message contains: the error then contains
\* "Insufficient funds", "Message too long" or "Signature verification
\* failed"; a message that contains none of the names is returned as it is.
C20_FirstMatchClassification ==
    \A m \in caught :
        /\ pc = "returned"
        /\ TheResult.success = FALSE
        /\ TheResult.tokenId = {}
        /\ \E e \in TheResult.error :
              /\ TheResult.error = {e}
              /\ IF Includes(m, <<"InsufficientPayment">>)
                 THEN Includes(e, <<"Insufficient funds">>)
                 ELSE IF Includes(m, <<"MessageTooLong">>)
                 THEN Includes(e, <<"Message too long">>)
                 ELSE IF Includes(m, <<"InvalidSignature">>)
                 THEN Includes(e, <<"Signature verification failed">>)
                 ELSE e = m

\* The receipt await threw a message that names InvalidSignature and then
\* InsufficientPayment: the hint is that of InsufficientPayment.
C20_Witness ==
    /\ pc = "returned"
    /\ caught = {<<"InvalidSignature", " after ", "InsufficientPayment">>}
    /\ receiptCalls # <<>>
    /\ \E e \in TheResult.error : Includes(e, <<"Insufficient funds">>)

\* The writeContract call w without the entry point and the payment.
SubmissionOf(w) ==
    [address |-> w.address, args |-> w.args, account |-> w.account,
     rpcUrl |-> w.rpcUrl]

\* C21: postMessage and postPinMessage, run side by side on the same text,
\* configuration and collaborator answers, are at the same stage, have made
\* the same calls with the same arguments (the submissions differing in the
\* function called and the value attached only) and have returned the same
\* result or raised the same error.
C21_SamePipeline ==
    Len(frames) = 2 =>
        /\ frames[1].pc = frames[2].pc
        /\ frames[1].fetchCalls = frames[2].fetchCalls
        /\ Len(frames[1].writeCalls) = Len(frames[2].writeCalls)
        /\ \A k \in 1..Len(frames[1].writeCalls) :
              SubmissionOf(frames[1].writeCalls[k]) =
                  SubmissionOf(frames[2].writeCalls[k])
        /\ frames[1].receiptCalls = frames[2].receiptCalls
        /\ frames[1].result = frames[2].result
        /\ frames[1].raised = frames[2].raised

\* C22: the outcome of a call is decided by the first stage that fails, in
\* the order text validation, configuration loading, signature request,
\* submission, receipt, and no later stage runs: an invalid text gives the
\* validation error whatever the configuration, which is not read; a
\* configuration error is returned before any call to the signing API; a
\* failure of the signature request leaves no submission, a failure of the
\* submission no receipt await; and success is returned only when all the
\* stages passed.
C22_FirstFailingStage ==
    pc \in Terminal =>
        IF ValidateText(text) # {}
        THEN /\ pc = "returned"
             /\ TheResult = Failure(CHOOSE m \in ValidateText(text) : TRUE)
             /\ config = NoConfig
             /\ NoExternalCall
        ELSE IF loadConfig(env).threw
        THEN /\ pc = "returned"
             /\ TheResult = Failure(loadConfig(env).error)
             /\ NoExternalCall
        ELSE IF fetchCalls = <<>>
        THEN pc = "raised" /\ NoExternalCall
        ELSE IF writeCalls = <<>>
        THEN /\ receiptCalls = <<>> /\ caught = {}
             /\ pc = "returned" =>
                   \E r \in signatureResult :
                       r.kind = "error" /\ TheResult = Failure(r.error)
        ELSE IF receiptCalls = <<>>
        THEN /\ hash = {} /\ receipt = {}
             /\ pc = "returned"
             /\ \E m \in caught : TheResult = CatchResult(variant, m)
        ELSE /\ pc = "returned"
             /\ TheResult.success => \E rc \in receipt : rc.status = "success"
             /\ receipt = {} => \E m \in caught : TheResult = CatchResult(variant, m)

\* An invalid text with no configuration at all: the validation error is
\* returned.
C22_Witness ==
    /\ pc = "returned"
    /\ Len(Trim(text.chars)) > MAX_MESSAGE_LENGTH
    /\ env.fid = <<>> /\ env.username = "" /\ env.privateKey = <<>>
    /\ \E e \in TheResult.error : Includes(e, <<"too long">>)
    /\ NoExternalCall

\* C23: every result a posting call returns has a consistent shape: with
\* success true the txHash is present and the error absent, and a receipt
\* with status success was observed; with success false the error is present
\* and the tokenId absent; a tokenId comes with success true only; and a
\* txHash is the hash writeContract returned to this call.
C23_ResultShape ==
    pc = "returned" =>
        /\ TheResult.success =>
              /\ TheResult.txHash # {}
              /\ TheResult.error = {}
              /\ \E rc \in receipt : rc.status = "success"
        /\ ~TheResult.success =>
              /\ TheResult.error # {}
              /\ TheResult.tokenId = {}
        /\ TheResult.tokenId # {} => TheResult.success
        /\ TheResult.txHash # {} =>
              /\ writeCalls # <<>>
              /\ hash # {}
              /\ TheResult.txHash = hash

\* A success with a tokenId, and the hash of the submission.
C23_Witness ==
    /\ pc = "returned"
    /\ TheResult.success
    /\ TheResult.tokenId = {42}
    /\ TheResult.txHash = hash /\ hash # {}
    /\ TheResult.error = {}

\* The posting call is waiting on an external call.
Awaiting == pc \in {"fetch", "json", "write", "receipt"}

\* C24: a posting call, each external call of which eventually returns or
\* fails, eventually ends (it returns a result or its promise rejects); and
\* the pipeline has no timeout of its own: a call that awaits the receipt
\* has no result, and it leaves that await only in the step in which
\* waitForTransactionReceipt returns a receipt or throws.
C24_EndsWhenAwaitsSettle ==
    /\ (pc # "idle") ~> (pc \in Terminal)
    /\ [](pc = "receipt" => result = {} /\ raised = {})
    /\ [][pc = "receipt" /\ pc' # "receipt"
            => /\ pc' \in Terminal
               /\ receipt' # {} \/ caught' # {}]_vars

\* The call awaits the receipt of the transaction it submitted and has no
\* result yet.
C24_Witness ==
    /\ pc = "receipt"
    /\ hash # {}
    /\ receiptCalls # <<>>
    /\ receipt = {}
    /\ result = {}

====
